---- MODULE Spec2Model ----
(***************************************************************************)
(* A model of the object-diff engine (ObjectDiffService), its descriptor   *)
(* model (PropertyDescriptors / TypeDescriptors) and the example driver.   *)
(*                                                                         *)
(* JavaScript values are tagged tuples, the tag first:                     *)
(*   <<"undefined">>  <<"null">>  <<"boolean", b>>  <<"number", n>>        *)
(*   <<"string", s>>  <<"array", xs>>  <<"object", es>>                    *)
(* A string is the sequence of its UTF-16 code units, so that              *)
(* concatenation, toLowerCase and the ordering used by sortBy are computed *)
(* and not tabulated.  An object is the sequence of its <<key, value>>     *)
(* entries in insertion order (the order JSON.stringify prints them in).   *)
(***************************************************************************)
EXTENDS Integers, Sequences, FiniteSets, TLC

(***************************************************************************)
(* JavaScript values                                                       *)
(***************************************************************************)
Undefined == <<"undefined">>
NaN == <<"NaN">>
Null == <<"null">>
Bool(b) == <<"boolean", b>>
Num(n) == <<"number", n>>
Str(s) == <<"string", s>>
Arr(xs) == <<"array", xs>>
Obj(es) == <<"object", es>>

IsArray(v) == v[1] = "array"
IsNil(v) == v[1] \in {"undefined", "null"}
IsObject(v) == v[1] = "object"

\* JavaScript truthiness, as used by `!x` and `x || y`
Truthy(v) ==
  CASE v[1] = "undefined" -> FALSE
    [] v[1] = "null" -> FALSE
    [] v[1] = "NaN" -> FALSE
    [] v[1] = "boolean" -> v[2]
    [] v[1] = "number" -> v[2] # 0
    [] v[1] = "string" -> v[2] # <<>>
    [] OTHER -> TRUE

\* Index of the first entry of `es` with key k, 0 when there is none
RECURSIVE IndexOfKey(_, _, _)
IndexOfKey(es, k, i) ==
  IF i > Len(es) THEN 0
  ELSE IF es[i][1] = k THEN i
  ELSE IndexOfKey(es, k, i + 1)

HasKey(es, k) == IndexOfKey(es, k, 1) # 0

\* es[k]
Lookup(es, k) == IF HasKey(es, k) THEN es[IndexOfKey(es, k, 1)][2] ELSE Undefined

\* es[k] = v : an existing key keeps its position, a new key is appended
Put(es, k, v) ==
  IF HasKey(es, k) THEN [es EXCEPT ![IndexOfKey(es, k, 1)] = <<k, v>>]
  ELSE Append(es, <<k, v>>)

\* value[k] for a value of any kind (a primitive has no own data property)
Get(v, k) == IF IsObject(v) THEN Lookup(v[2], k) ELSE Undefined

ObjectKeys(es) == [i \in 1..Len(es) |-> es[i][1]]

(***************************************************************************)
(* Strings                                                                 *)
(***************************************************************************)
S_id == <<105, 100>>                                         \* 'id'
S_make == <<109, 97, 107, 101>>                              \* 'make'
S_model == <<109, 111, 100, 101, 108>>                       \* 'model'
S_year == <<121, 101, 97, 114>>                              \* 'year'
S_msrp == <<109, 115, 114, 112>>                             \* 'msrp'
S_features == <<102, 101, 97, 116, 117, 114, 101, 115>>      \* 'features'
S_salePrice == <<115, 97, 108, 101, 80, 114, 105, 99, 101>>  \* 'salePrice'
S_cars == <<99, 97, 114, 115>>                               \* 'cars'
S_trucks == <<116, 114, 117, 99, 107, 115>>                  \* 'trucks'
S_name == <<110, 97, 109, 101>>                              \* 'name'
S_optional == <<111, 112, 116, 105, 111, 110, 97, 108>>      \* 'optional'
S_cost == <<99, 111, 115, 116>>                              \* 'cost'
S_tags == <<116, 97, 103, 115>>                              \* 'tags'
S_Automobile == <<65, 117, 116, 111, 109, 111, 98, 105, 108, 101>>
S_AutomobileCollection == S_Automobile \o <<67, 111, 108, 108, 101, 99, 116, 105, 111, 110>>
S_AutomobileFeature == S_Automobile \o <<70, 101, 97, 116, 117, 114, 101>>
S_added_car == <<97, 100, 100, 101, 100, 95, 99, 97, 114>>                  \* 'added_car'
S_removed_car == <<114, 101, 109, 111, 118, 101, 100, 95, 99, 97, 114>>     \* 'removed_car'
S_modified_car == <<109, 111, 100, 105, 102, 105, 101, 100, 95, 99, 97, 114>>
S_truck_1 == <<116, 114, 117, 99, 107, 95, 49>>              \* 'truck_1'
S_ford == <<102, 111, 114, 100>>                             \* 'ford'
S_honda == <<104, 111, 110, 100, 97>>                        \* 'honda'
S_toyota == <<116, 111, 121, 111, 116, 97>>                  \* 'toyota'
S_fiesta == <<102, 105, 101, 115, 116, 97>>                  \* 'fiesta'
S_civic == <<99, 105, 118, 105, 99>>                         \* 'civic'
S_corolla == <<99, 111, 114, 111, 108, 108, 97>>             \* 'corolla'
S_tacoma == <<116, 97, 99, 111, 109, 97>>                    \* 'tacoma'
S_feature_1 == <<102, 101, 97, 116, 117, 114, 101, 95, 49>>  \* 'feature_1'
S_PowerWindows == <<80, 111, 119, 101, 114, 32, 87, 105, 110, 100, 111, 119, 115>>
S_tag_1 == <<116, 97, 103, 95, 49>>                          \* 'tag_1'
S_true == <<116, 114, 117, 101>>                             \* 'true'
S_false == <<102, 97, 108, 115, 101>>                        \* 'false'
S_null == <<110, 117, 108, 108>>                             \* 'null'
S_NaN == <<78, 97, 78>>                                      \* 'NaN'
S_objectObject == <<91, 111, 98, 106, 101, 99, 116, 32, 79, 98, 106, 101, 99, 116, 93>>
Removed == <<45>>                                            \* the '-' marker key
Added == <<43>>                                              \* the '+' marker key

\* a variant: the string as it is
Verbatim(s) == s

\* String.prototype.toLowerCase on the ASCII range
ToLowerCase(s) ==
  [i \in 1..Len(s) |-> IF s[i] >= 65 /\ s[i] <= 90 THEN s[i] + 32 ELSE s[i]]

\* Number.prototype.toString for a non-negative integer
RECURSIVE NumberToString(_)
NumberToString(n) ==
  IF n < 10 THEN <<48 + n>>
  ELSE Append(NumberToString(n \div 10), 48 + (n % 10))

\* value.toString()
RECURSIVE ValueToString(_)
RECURSIVE Join(_, _)
ValueToString(v) ==
  CASE v[1] = "string" -> v[2]
    [] v[1] = "number" -> NumberToString(v[2])
    [] v[1] = "NaN" -> S_NaN
    [] v[1] = "boolean" -> IF v[2] THEN S_true ELSE S_false
    [] v[1] = "array" -> Join(v[2], 1)
    [] OTHER -> S_objectObject

Join(xs, i) ==
  IF i > Len(xs) THEN <<>>
  ELSE (IF i > 1 THEN <<44>> ELSE <<>>)
       \o (IF IsNil(xs[i]) THEN <<>> ELSE ValueToString(xs[i]))
       \o Join(xs, i + 1)

\* a < b for strings: code unit by code unit, a proper prefix first
RECURSIVE StringLess(_, _, _)
StringLess(a, b, i) ==
  IF i > Len(b) THEN FALSE
  ELSE IF i > Len(a) THEN TRUE
  ELSE IF a[i] # b[i] THEN a[i] < b[i]
  ELSE StringLess(a, b, i + 1)

\* lodash compareAscending(a, b) > 0: NaN is put behind everything,
\* undefined behind everything else, null behind the other values; two
\* strings or two numbers are compared, other values are left in place
Greater(a, b) ==
  IF a[1] = "NaN" THEN TRUE
  ELSE IF a[1] = "undefined" THEN b[1] \notin {"undefined", "NaN"}
  ELSE IF a[1] = "null" THEN b[1] \notin {"null", "undefined", "NaN"}
  ELSE IF a[1] = "string" /\ b[1] = "string" THEN StringLess(b[2], a[2], 1)
  ELSE IF a[1] = "number" /\ b[1] = "number" THEN a[2] > b[2]
  ELSE FALSE

\* Insert x into the sorted sequence xs behind every element not greater
RECURSIVE Insert(_, _, _)
Insert(xs, x, i) ==
  IF i > Len(xs) THEN Append(xs, x)
  ELSE IF Greater(xs[i], x) THEN SubSeq(xs, 1, i - 1) \o <<x>> \o SubSeq(xs, i, Len(xs))
  ELSE Insert(xs, x, i + 1)

\* lodash sortBy(xs): ascending and stable
RECURSIVE SortFrom(_, _, _)
SortFrom(xs, i, acc) ==
  IF i > Len(xs) THEN acc ELSE SortFrom(xs, i + 1, Insert(acc, xs[i], 1))

\* a variant: the sequence is used in the order it comes in
Unsorted(xs) == xs

SortBy(xs) == SortFrom(xs, 1, <<>>)

\* sortBy on plain strings (property names, canonical keys)
Wrap(ss) == [i \in 1..Len(ss) |-> Str(ss[i])]
Unwrap(vs) == [i \in 1..Len(vs) |-> vs[i][2]]
SortStrings(ss) == Unwrap(SortBy(Wrap(ss)))

Includes(xs, x) == \E i \in 1..Len(xs) : xs[i] = x

\* lodash intersection(a, b): the distinct elements of a, in a's order, that
\* also occur in b
RECURSIVE IntersectionFrom(_, _, _, _)
IntersectionFrom(a, b, i, acc) ==
  IF i > Len(a) THEN acc
  ELSE IF Includes(b, a[i]) /\ ~Includes(acc, a[i])
       THEN IntersectionFrom(a, b, i + 1, Append(acc, a[i]))
       ELSE IntersectionFrom(a, b, i + 1, acc)

Intersection(a, b) == IntersectionFrom(a, b, 1, <<>>)

\* JSON.stringify(item) for a primitive array element: a string value, or
\* undefined for undefined
RECURSIVE Escape(_, _)
Escape(s, i) ==
  IF i > Len(s) THEN <<>>
  ELSE (IF s[i] \in {34, 92} THEN <<92, s[i]>> ELSE <<s[i]>>) \o Escape(s, i + 1)

Stringify(v) ==
  CASE v[1] = "string" -> Str(<<34>> \o Escape(v[2], 1) \o <<34>>)
    [] v[1] = "number" -> Str(NumberToString(v[2]))
    [] v[1] = "boolean" -> Str(IF v[2] THEN S_true ELSE S_false)
    [] v[1] = "null" -> Str(S_null)
    [] v[1] = "NaN" -> Str(S_null)
    [] OTHER -> Undefined


\* a variant: null and undefined are taken for equal
LooseEqual(a, b) == (IsNil(a) /\ IsNil(b)) \/ (a[1] = b[1] /\ a = b)

\* lodash isEqual(a, b): deep equality; objects are compared as mappings,
\* whatever the order of their keys
RECURSIVE IsEqual(_, _)
IsEqual(a, b) ==
  IF a[1] # b[1] THEN FALSE
  ELSE IF a[1] = "array"
    THEN /\ Len(a[2]) = Len(b[2])
         /\ \A i \in 1..Len(a[2]) : IsEqual(a[2][i], b[2][i])
  ELSE IF a[1] = "object"
    THEN /\ Len(a[2]) = Len(b[2])
         /\ \A i \in 1..Len(a[2]) :
              /\ HasKey(b[2], a[2][i][1])
              /\ IsEqual(a[2][i][2], Lookup(b[2], a[2][i][1]))
  ELSE a = b

(***************************************************************************)
(* State                                                                   *)
(*                                                                         *)
(* A TypeDescriptor is the record [name, primaryKey, properties], where    *)
(* properties is the sequence of <<key, ref>> entries of the config object *)
(* and ref names a PropertyDescriptor object.  PropertyDescriptor objects  *)
(* are shared and mutable (TypeDescriptors.create writes their name), so   *)
(* they live in a heap: heap[ref] = [type, descriptor, name], descriptor   *)
(* being <<>> when absent and <<td>> otherwise.                            *)
(***************************************************************************)
VARIABLES
  heap,          \* the PropertyDescriptor objects
  created,       \* the descriptors TypeDescriptors.create has returned, in order
  from,          \* diff's first argument
  to,            \* diff's second argument
  descriptor,    \* diff's third argument
  pc,            \* "idle": no call pending, "called": diff entered,
                 \* "returned" / "thrown": how the last diff call ended
  changeResult,  \* the value the last diff call returned
  errors         \* the messages passed to logger.error during the last call

vars == <<heap, created, from, to, descriptor, pc, changeResult, errors>>

\* descriptor.properties[key]
PropertyDescriptorOf(td, key) ==
  heap[td.properties[IndexOfKey(td.properties, key, 1)][2]]

(***************************************************************************)
(* ObjectDiffService                                                       *)
(***************************************************************************)
\* _toArray: <<>> stands for undefined, <<names>> for an array of names
ToArray(value) ==
  IF ~Truthy(value) THEN <<>>
  ELSE IF ~IsArray(value) THEN << <<ValueToString(value)>> >>
  ELSE << [i \in 1..Len(value[2]) |-> ValueToString(value[2][i])] >>

\* the loop of _getPrimaryKeyValue over the sorted key names
RECURSIVE PrimaryKeyValueFrom(_, _, _)
PrimaryKeyValueFrom(item, sortedKeys, i) ==
  IF i > Len(sortedKeys) THEN <<>>
  ELSE LET value == Get(item, sortedKeys[i])
           orEmpty == IF Truthy(value) THEN value ELSE Str(<<>>)
       IN sortedKeys[i] \o <<58>> \o ToLowerCase(ValueToString(orEmpty)) \o <<59>>
            \o PrimaryKeyValueFrom(item, sortedKeys, i + 1)

GetPrimaryKeyValue(item, primaryKeys) ==
  PrimaryKeyValueFrom(item, SortStrings(primaryKeys), 1)

\* a variant: the keys in the order of the items
KeyValuesInOrder(items, primaryKeys) ==
  [i \in 1..Len(items) |-> GetPrimaryKeyValue(items[i], primaryKeys)]

GetPrimaryKeyValues(items, primaryKeys) ==
  SortStrings([i \in 1..Len(items) |-> GetPrimaryKeyValue(items[i], primaryKeys)])

\* a variant: the first element, whatever its key
FindFirst(array, keyValue, primaryKeys, i) ==
  IF Len(array) = 0 THEN <<>> ELSE <<array[1]>>

\* a variant: the last element with the key
FindLast(array, keyValue, primaryKeys, i) ==
  LET hits == SelectSeq(array, LAMBDA x : GetPrimaryKeyValue(x, primaryKeys) = keyValue)
  IN IF hits = <<>> THEN <<>> ELSE <<hits[Len(hits)]>>

\* find(array, item => key(item) === keyValue): <<item>>, or <<>> for undefined
RECURSIVE FindByKey(_, _, _, _)
FindByKey(array, keyValue, primaryKeys, i) ==
  IF i > Len(array) THEN <<>>
  ELSE IF GetPrimaryKeyValue(array[i], primaryKeys) = keyValue THEN <<array[i]>>
  ELSE FindByKey(array, keyValue, primaryKeys, i + 1)

\* !found
NotFound(found) == found = <<>> \/ ~Truthy(found[1])

\* a variant: the keys of the from array, in to or not
FromKeys(fromArray, toArray, primaryKeys) == GetPrimaryKeyValues(fromArray, primaryKeys)

\* the keys both arrays hold, in ascending order, each once
Matched(fromArray, toArray, primaryKeys) ==
  Intersection(GetPrimaryKeyValues(fromArray, primaryKeys),
               GetPrimaryKeyValues(toArray, primaryKeys))

\* _getChanges; thrown tells that the Error of line 32 was raised
GetChanges(fromArray, toArray, primaryKeys) ==
  LET matched == Matched(fromArray, toArray, primaryKeys)
      lone(item) == ~Includes(matched, GetPrimaryKeyValue(item, primaryKeys))
      pairs == [i \in 1..Len(matched) |->
                 [primaryKey |-> matched[i],
                  from |-> FindByKey(fromArray, matched[i], primaryKeys, 1),
                  to |-> FindByKey(toArray, matched[i], primaryKeys, 1)]]
  IN [removed |-> SelectSeq(fromArray, lone),
      added |-> SelectSeq(toArray, lone),
      inBoth |-> pairs,
      thrown |-> \E i \in 1..Len(pairs) : NotFound(pairs[i].from) \/ NotFound(pairs[i].to)]

\* The engine's running state: the object being filled, the messages logged
\* so far, and the Error thrown (<<>> while none is).
NewObject(log) == [result |-> <<>>, log |-> log, thrown |-> <<>>, return |-> FALSE]
LogError(acc, kind, path) ==
  [acc EXCEPT !.log = Append(acc.log, <<kind, path>>), !.return = TRUE]
Throw(acc, error) == [acc EXCEPT !.thrown = <<error>>]
Failed(acc) == acc.thrown # <<>>

PropertyPath(td, name) == td.name \o <<46>> \o name

RECURSIVE ProcessComplexTypeTransformations(_, _, _)
RECURSIVE TransformKeys(_, _, _, _, _)
RECURSIVE TransformItems(_, _, _, _)
RECURSIVE ProcessChanges(_, _, _, _)
RECURSIVE ProcessKeys(_, _, _, _, _, _)
RECURSIVE ProcessInBoth(_, _, _, _, _, _)
RECURSIVE Snapshots(_, _, _, _, _)

\* acc after a nested call that ended as sub: what the call logged is in the
\* log, the Error it threw goes on up
After(acc, sub) == [acc EXCEPT !.log = sub.log, !.thrown = sub.thrown]

(***************************************************************************)
(* _processComplexTypeTransformations(result, root, property, descriptor). *)
(* The root argument is only passed along and is left out.                 *)
(***************************************************************************)
\* line 248: itemResults.push(itemResult)
PushItem(acc, itemResult) ==
  IF Failed(itemResult) THEN After(acc, itemResult)
  ELSE [After(acc, itemResult) EXCEPT !.result = Append(@, Obj(itemResult.result))]

\* lines 242-250: one projected object per element of the array
TransformItems(acc, items, i, td) ==
  IF i > Len(items) \/ Failed(acc) THEN acc
  ELSE TransformItems(
         PushItem(acc, ProcessComplexTypeTransformations(NewObject(acc.log), items[i], td)),
         items, i + 1, td)

\* lines 252-254: the sequence is stored only if it is not empty
PutItems(acc, name, itemResults) ==
  IF Failed(itemResults) \/ Len(itemResults.result) = 0 THEN After(acc, itemResults)
  ELSE [After(acc, itemResults) EXCEPT !.result = Put(@, name, Arr(itemResults.result))]

\* a variant: the value is copied whatever it is
PutValue(acc, name, propertyValue) ==
  [acc EXCEPT !.result = Put(@, name, propertyValue)]

\* lines 264-270: a primitive value is copied unless it is nil
PutPrimitive(acc, name, propertyValue) ==
  IF ~IsNil(propertyValue) THEN [acc EXCEPT !.result = Put(@, name, propertyValue)]
  ELSE acc

\* lines 218-271: the body of the loop for one key
TransformProperty(acc, key, property, propertyDescriptor, td) ==
  IF ~Truthy(propertyDescriptor.name)
    THEN LogError(acc, "name", td.name)
  ELSE IF propertyDescriptor.type = "complex"
    THEN IF propertyDescriptor.descriptor = <<>>
           THEN LogError(acc, "descriptor", PropertyPath(td, propertyDescriptor.name[2]))
         ELSE IF IsArray(Get(property, key))
           THEN PutItems(acc, propertyDescriptor.name[2],
                         TransformItems(NewObject(acc.log), Get(property, key)[2], 1,
                                        propertyDescriptor.descriptor[1]))
         ELSE IF ~IsNil(Get(property, key))
           THEN Throw(acc, <<"non-array", propertyDescriptor.name[2]>>)
         ELSE acc
  ELSE PutPrimitive(acc, propertyDescriptor.name[2],
                    Get(property, propertyDescriptor.name[2]))

\* line 217: for (const key of sortBy(Object.keys(descriptor.properties)))
TransformKeys(acc, keys, i, property, td) ==
  IF i > Len(keys) \/ Failed(acc) \/ acc.return THEN acc
  ELSE TransformKeys(
         TransformProperty(acc, keys[i], property, PropertyDescriptorOf(td, keys[i]), td),
         keys, i + 1, property, td)

ProcessComplexTypeTransformations(acc, property, td) ==
  [TransformKeys(acc, SortStrings(ObjectKeys(td.properties)), 1, property, td)
     EXCEPT !.return = FALSE]

(***************************************************************************)
(* _processChanges(changeResult, fromRoot, toRoot, from, to, descriptor).  *)
(* The two root arguments are only passed along and are left out.          *)
(***************************************************************************)
\* lines 116-118, 124-126: { [marker]: transformedItem }
PushSnapshot(acc, marker, transformedItem) ==
  IF Failed(transformedItem) THEN After(acc, transformedItem)
  ELSE [After(acc, transformedItem) EXCEPT
          !.result = Append(@, Obj(<< <<marker, Obj(transformedItem.result)>> >>))]

\* lines 112-127: items.map(item => ({ [marker]: snapshot of item }))
Snapshots(acc, items, i, marker, td) ==
  IF i > Len(items) \/ Failed(acc) THEN acc
  ELSE Snapshots(
         PushSnapshot(acc, marker,
                      ProcessComplexTypeTransformations(NewObject(acc.log), items[i], td)),
         items, i + 1, marker, td)

\* lines 140-142: itemChangeResultFinal[primaryKey] = change.from[primaryKey]
RECURSIVE PutPrimaryKeys(_, _, _, _)
PutPrimaryKeys(es, primaryKeys, i, item) ==
  IF i > Len(primaryKeys) THEN es
  ELSE PutPrimaryKeys(Put(es, primaryKeys[i], Get(item, primaryKeys[i])), primaryKeys, i + 1, item)

\* lines 144-146: itemChangeResultFinal[key] = itemChangeResult[key]
RECURSIVE PutAll(_, _, _)
PutAll(es, more, i) ==
  IF i > Len(more) THEN es
  ELSE PutAll(Put(es, more[i][1], more[i][2]), more, i + 1)

\* lines 148-156: the record is pushed onto changeResult[name], which is
\* made an empty array first when it holds nothing
PushRecord(es, name, record) ==
  LET ensured == IF ~Truthy(Lookup(es, name)) THEN Put(es, name, Arr(<<>>)) ELSE es
  IN IF IsArray(Lookup(ensured, name))
       THEN Put(ensured, name, Arr(Append(Lookup(ensured, name)[2], record)))
       ELSE ensured

\* a variant: the size is taken once the primary keys are in the record
SizeWithKeys(es) == Len(es) + 1

\* lodash size(itemChangeResult)
Size(es) == Len(es)

\* lines 137-157: a matched pair that differs leaves its primary keys and
\* its changes
PushChange(acc, name, primaryKeys, fromItem, itemChangeResult) ==
  IF Failed(itemChangeResult) \/ ~(Size(itemChangeResult.result) > 0)
    THEN After(acc, itemChangeResult)
  ELSE [After(acc, itemChangeResult) EXCEPT
          !.result = PushRecord(@, name,
                                Obj(PutAll(PutPrimaryKeys(<<>>, primaryKeys, 1, fromItem),
                                           itemChangeResult.result, 1)))]

\* lines 132-158: for (const change of changes.inBoth)
ProcessInBoth(acc, inBoth, i, primaryKeys, name, td) ==
  IF i > Len(inBoth) \/ Failed(acc) THEN acc
  ELSE ProcessInBoth(
         PushChange(acc, name, primaryKeys, inBoth[i].from[1],
                    ProcessChanges(NewObject(acc.log), inBoth[i].from[1], inBoth[i].to[1], td)),
         inBoth, i + 1, primaryKeys, name, td)

\* line 111: changeResult[name] = [...removed snapshots, ...added snapshots]
PutUnmatched(acc, name, snapshots) ==
  IF Failed(snapshots) THEN After(acc, snapshots)
  ELSE [After(acc, snapshots) EXCEPT !.result = Put(@, name, Arr(snapshots.result))]

\* lines 109-130: the elements without a counterpart
ProcessUnmatched(acc, changes, name, td) ==
  IF (Len(changes.removed) > 0 \/ Len(changes.added) > 0) /\ ~Truthy(Lookup(acc.result, name))
    THEN PutUnmatched(acc, name,
                      Snapshots(Snapshots(NewObject(acc.log), changes.removed, 1, Removed, td),
                                changes.added, 1, Added, td))
    ELSE acc

\* lines 107-158: both values are arrays
Reconcile(acc, changes, primaryKeys, name, td) ==
  IF changes.thrown THEN Throw(acc, <<"uh-oh">>)
  ELSE ProcessInBoth(ProcessUnmatched(acc, changes, name, td),
                     changes.inBoth, 1, primaryKeys, name, td)

\* lines 106-163: the complex branch once the descriptor checks have passed
ProcessComplex(acc, fromPropertyValue, toPropertyValue, primaryKeys, name, td) ==
  IF IsArray(fromPropertyValue) /\ IsArray(toPropertyValue)
    THEN Reconcile(acc, GetChanges(fromPropertyValue[2], toPropertyValue[2], primaryKeys),
                   primaryKeys, name, td)
  ELSE IF ~IsNil(fromPropertyValue) \/ ~IsNil(toPropertyValue)
    THEN Throw(acc, <<"non-array", name>>)
  ELSE acc

\* lines 180-197: the markers of a primitive array
PutMarkers(acc, name, removedItems, addedItems) ==
  IF Len(removedItems) > 0 \/ Len(addedItems) > 0
    THEN [acc EXCEPT !.result =
            Put(@, name,
                Arr((IF Len(removedItems) > 0
                       THEN << Obj(<< <<Removed, Arr(SortBy(removedItems))>> >>) >>
                       ELSE <<>>)
                    \o (IF Len(addedItems) > 0
                          THEN << Obj(<< <<Added, Arr(SortBy(addedItems))>> >>) >>
                          ELSE <<>>)))]
    ELSE acc

\* lines 177-178: array.filter(item => !matched.includes(JSON.stringify(item)))
Unmatched(items, matched) ==
  SelectSeq(items, LAMBDA item : ~Includes(matched, Stringify(item)))

\* a variant: every element of the from array counts as matched
MatchedInFrom(fromItems, toItems) ==
  [i \in 1..Len(fromItems) |-> Stringify(fromItems[i])]

\* lines 173-176: the stringified elements both arrays hold
MatchedItems(fromItems, toItems) ==
  Intersection([i \in 1..Len(fromItems) |-> Stringify(fromItems[i])],
               [i \in 1..Len(toItems) |-> Stringify(toItems[i])])

\* lines 169-205: the primitive branch
ProcessPrimitive(acc, fromPropertyValue, toPropertyValue, name) ==
  IF IsArray(fromPropertyValue) /\ IsArray(toPropertyValue)
    THEN PutMarkers(acc, name,
                    Unmatched(fromPropertyValue[2],
                              MatchedItems(fromPropertyValue[2], toPropertyValue[2])),
                    Unmatched(toPropertyValue[2],
                              MatchedItems(fromPropertyValue[2], toPropertyValue[2])))
  ELSE IF ~IsEqual(fromPropertyValue, toPropertyValue)
    THEN [acc EXCEPT !.result =
            Put(@, name, Obj(<< <<Removed, fromPropertyValue>>, <<Added, toPropertyValue>> >>))]
  ELSE acc

\* line 76: the primary keys of the property's type descriptor
PrimaryKeysOf(propertyDescriptor) ==
  ToArray(IF propertyDescriptor.descriptor = <<>> THEN Undefined
          ELSE propertyDescriptor.descriptor[1].primaryKey)

\* lines 75-207: the body of the loop for one key
ProcessProperty(acc, key, fromValue, toValue, propertyDescriptor, primaryKeys, td) ==
  IF ~Truthy(propertyDescriptor.name)
    THEN LogError(acc, "name", td.name)
  ELSE IF propertyDescriptor.type = "complex"
    THEN IF propertyDescriptor.descriptor = <<>>
           THEN LogError(acc, "descriptor", PropertyPath(td, propertyDescriptor.name[2]))
         ELSE IF primaryKeys = <<>>
           THEN LogError(acc, "primaryKey", PropertyPath(td, propertyDescriptor.name[2]))
         ELSE ProcessComplex(acc, Get(fromValue, key), Get(toValue, key), primaryKeys[1],
                             propertyDescriptor.name[2], propertyDescriptor.descriptor[1])
  ELSE ProcessPrimitive(acc, Get(fromValue, propertyDescriptor.name[2]),
                        Get(toValue, propertyDescriptor.name[2]), propertyDescriptor.name[2])

\* line 74: for (const key of sortBy(Object.keys(descriptor.properties)))
ProcessKeys(acc, keys, i, fromValue, toValue, td) ==
  IF i > Len(keys) \/ Failed(acc) \/ acc.return THEN acc
  ELSE ProcessKeys(
         ProcessProperty(acc, keys[i], fromValue, toValue, PropertyDescriptorOf(td, keys[i]),
                         PrimaryKeysOf(PropertyDescriptorOf(td, keys[i])), td),
         keys, i + 1, fromValue, toValue, td)

ProcessChanges(acc, fromValue, toValue, td) ==
  [ProcessKeys(acc, SortStrings(ObjectKeys(td.properties)), 1, fromValue, toValue, td)
     EXCEPT !.return = FALSE]

\* a variant: the result object is not made anew on each call, the entries
\* of the result returned last are still in it
DiffInto(fromValue, toValue, td) ==
  ProcessChanges([NewObject(<<>>) EXCEPT !.result = IF IsObject(changeResult) THEN changeResult[2] ELSE <<>>],
                 fromValue, toValue, td)

\* diff(from, to, descriptor): what the call leaves behind
Diff(fromValue, toValue, td) == ProcessChanges(NewObject(<<>>), fromValue, toValue, td)

\* JSON.stringify(value), as a value: a key whose value is undefined is not
\* printed, an undefined array element is printed as null
RECURSIVE Json(_)
RECURSIVE JsonEntries(_, _)
JsonEntries(es, i) ==
  IF i > Len(es) THEN <<>>
  ELSE (IF es[i][2] = Undefined THEN <<>> ELSE << <<es[i][1], Json(es[i][2])>> >>)
       \o JsonEntries(es, i + 1)

Json(v) ==
  IF IsArray(v)
    THEN Arr([i \in 1..Len(v[2]) |-> IF v[2][i] = Undefined THEN Null ELSE Json(v[2][i])])
  ELSE IF IsObject(v) THEN Obj(JsonEntries(v[2], 1))
  ELSE v

(***************************************************************************)
(* PropertyDescriptors, TypeDescriptors                                    *)
(***************************************************************************)
\* PropertyDescriptors.boolean() / number() / string(): a new object without
\* a name.  The heap is a sequence, a reference the index of the object.
Primitive(type) == [type |-> type, descriptor |-> <<>>, name |-> Undefined]

\* PropertyDescriptors.complex(descriptor)
Complex(td) == [type |-> "complex", descriptor |-> <<td>>, name |-> Undefined]

\* the loop of TypeDescriptors.create: property.name = key, key after key
RECURSIVE BindNames(_, _, _)
BindNames(h, properties, i) ==
  IF i > Len(properties) THEN h
  ELSE BindNames([h EXCEPT ![properties[i][2]].name = Str(properties[i][1])],
                 properties, i + 1)

\* TypeDescriptors.create(config): the heap it leaves (it returns config)
Create(h, config) == BindNames(h, config.properties, 1)

\* A config literal whose properties are freshly made PropertyDescriptor
\* objects, passed to TypeDescriptors.create.  props lists <<key, object>>.
Describe(b, name, primaryKey, props) ==
  LET config == [name |-> name, primaryKey |-> primaryKey,
                 properties |-> [i \in 1..Len(props) |-> <<props[i][1], Len(b.heap) + i>>]]
  IN [heap |-> Create(b.heap \o [i \in 1..Len(props) |-> props[i][2]], config),
      created |-> Append(b.created, config),
      td |-> config]

\* before anything is built
Nothing == [heap |-> <<>>, created |-> <<>>]

(***************************************************************************)
(* CarTypeDescriptorRegistry: every getter builds new objects              *)
(***************************************************************************)
AutomobileFeature(b) ==
  Describe(b, S_AutomobileFeature, Str(S_id),
           << <<S_id, Primitive("string")>>,
              <<S_name, Primitive("string")>>,
              <<S_optional, Primitive("boolean")>>,
              <<S_cost, Primitive("number")>>,
              <<S_tags, Primitive("string")>> >>)

Automobile(b) ==
  LET feature == AutomobileFeature(b)
  IN Describe(feature, S_Automobile, Str(S_id),
              << <<S_id, Primitive("string")>>,
                 <<S_make, Primitive("string")>>,
                 <<S_model, Primitive("string")>>,
                 <<S_year, Primitive("number")>>,
                 <<S_msrp, Primitive("number")>>,
                 <<S_features, Complex(feature.td)>>,
                 <<S_salePrice, Primitive("number")>> >>)

AutomobileCollection(b) ==
  LET cars == Automobile(b)
      trucks == Automobile(cars)
  IN Describe(trucks, S_AutomobileCollection, Undefined,
              << <<S_cars, Complex(cars.td)>>,
                 <<S_trucks, Complex(trucks.td)>> >>)

(***************************************************************************)
(* ObjectDiffExample.diff                                                  *)
(***************************************************************************)
PowerWindows ==
  Obj(<< <<S_id, Str(S_feature_1)>>, <<S_name, Str(S_PowerWindows)>>,
         <<S_optional, Bool(TRUE)>>, <<S_cost, Num(2000)>>,
         <<S_tags, Arr(<<Str(S_tag_1)>>)>> >>)

Car(id, make, model) ==
  << <<S_id, Str(id)>>, <<S_make, Str(make)>>, <<S_model, Str(model)>>,
     <<S_year, Num(2022)>>, <<S_msrp, Num(15000)>>,
     <<S_features, Arr(<<PowerWindows>>)>> >>

addedCar == Obj(Car(S_added_car, S_ford, S_fiesta))
removedCar == Obj(Car(S_removed_car, S_honda, S_civic))
modifiedCar == Obj(Car(S_modified_car, S_toyota, S_corolla))
truck == Obj(Car(S_truck_1, S_toyota, S_tacoma))

\* { ...modifiedCar, msrp: 16000, salePrice: 14000 }
modifiedCarTo == Obj(Put(Put(modifiedCar[2], S_msrp, Num(16000)), S_salePrice, Num(14000)))

ExampleFrom ==
  Obj(<< <<S_cars, Arr(<<removedCar, modifiedCar>>)>>, <<S_trucks, Arr(<<truck>>)>> >>)

ExampleTo ==
  Obj(<< <<S_cars, Arr(<<addedCar, modifiedCarTo>>)>>, <<S_trucks, Arr(<<>>)>> >>)

ExampleRegistry == AutomobileCollection(Nothing)

\* the result the README prints for the example (with the truck's id as in
\* the example's source)
FeatureSnapshot ==
  Obj(<< <<S_cost, Num(2000)>>, <<S_id, Str(S_feature_1)>>, <<S_name, Str(S_PowerWindows)>>,
         <<S_optional, Bool(TRUE)>>, <<S_tags, Arr(<<Str(S_tag_1)>>)>> >>)

CarSnapshot(id, make, model) ==
  Obj(<< <<S_features, Arr(<<FeatureSnapshot>>)>>, <<S_id, Str(id)>>, <<S_make, Str(make)>>,
         <<S_model, Str(model)>>, <<S_msrp, Num(15000)>>, <<S_year, Num(2022)>> >>)

ExampleResult ==
  Obj(<< <<S_cars,
           Arr(<< Obj(<< <<Removed, CarSnapshot(S_removed_car, S_honda, S_civic)>> >>),
                  Obj(<< <<Added, CarSnapshot(S_added_car, S_ford, S_fiesta)>> >>),
                  Obj(<< <<S_id, Str(S_modified_car)>>,
                         <<S_msrp, Obj(<< <<Removed, Num(15000)>>, <<Added, Num(16000)>> >>)>>,
                         <<S_salePrice, Obj(<< <<Added, Num(14000)>> >>)>> >>) >>)>>,
         <<S_trucks,
           Arr(<< Obj(<< <<Removed, CarSnapshot(S_truck_1, S_toyota, S_tacoma)>> >>) >>)>> >>)

(***************************************************************************)
(* Bounds of the inputs                                                    *)
(***************************************************************************)
\* a primitive array holds at most MaxLen elements
MaxLen == 2
\* the two arrays of a reconciled property hold at most MaxItems elements together
MaxItems == 4
\* the same for the arrays of elements that hold arrays themselves
MaxNodes == 2

S_a == <<97>>                                 \* 'a'
S_A == <<65>>                                 \* 'A'
S_b == <<98>>                                 \* 'b'
S_x == <<120>>                                \* 'x'
S_y == <<121>>                                \* 'y'
S_n == <<110>>                                \* 'n'
S_v == <<118>>                                \* 'v'
S_w == <<119>>                                \* 'w'
S_items == <<105, 116, 101, 109, 115>>        \* 'items'
S_nodes == <<110, 111, 100, 101, 115>>        \* 'nodes'
S_leaves == <<108, 101, 97, 118, 101, 115>>   \* 'leaves'
S_bad == <<98, 97, 100>>                      \* 'bad'
S_Prim == <<80, 114, 105, 109>>               \* 'Prim'
S_Item == <<73, 116, 101, 109>>               \* 'Item'
S_List == <<76, 105, 115, 116>>               \* 'List'
S_Leaf == <<76, 101, 97, 102>>                \* 'Leaf'
S_Node == <<78, 111, 100, 101>>               \* 'Node'
S_Tree == <<84, 114, 101, 101>>               \* 'Tree'
S_Hand == <<72, 97, 110, 100>>                \* 'Hand'
S_Bare == <<66, 97, 114, 101>>                \* 'Bare'
S_Keyless == <<75, 101, 121, 108, 101, 115, 115>>
S_Pair == <<80, 97, 105, 114>>                \* 'Pair'
S_1 == <<49>>                                 \* '1'
S_3 == <<51>>                                 \* '3'
S_1_b_2 == <<49, 59, 98, 58, 50>>             \* '1;b:2'
S_2_b_3 == <<50, 59, 98, 58, 51>>             \* '2;b:3'
S_undefined == <<117, 110, 100, 101, 102, 105, 110, 101, 100>>

\* the sequences over S of length at most n, as arrays
ArraysOver(S, n) == UNION {{Arr(xs) : xs \in [1..k -> S]} : k \in 0..n}

\* an object with the given entries, the undefined ones left out
RECURSIVE Defined(_, _)
Defined(es, i) ==
  IF i > Len(es) THEN <<>>
  ELSE (IF es[i][2] = Undefined THEN <<>> ELSE <<es[i]>>) \o Defined(es, i + 1)

Object(es) == Obj(Defined(es, 1))

(***************************************************************************)
(* The descriptors the engine is run on, each built as a registry builds   *)
(* its own: fresh PropertyDescriptor objects and TypeDescriptors.create.   *)
(***************************************************************************)
\* { n: number, tags: string }, no array of objects
PrimType ==
  Describe(Nothing, S_Prim, Undefined,
           << <<S_n, Primitive("number")>>, <<S_tags, Primitive("string")>> >>)

\* { items: Item[] }, Item = { id: string, v: number } with primary key id
ItemType(b) ==
  Describe(b, S_Item, Str(S_id),
           << <<S_id, Primitive("string")>>, <<S_v, Primitive("number")>> >>)

ListType ==
  LET item == ItemType(Nothing)
  IN Describe(item, S_List, Undefined, << <<S_items, Complex(item.td)>> >>)

\* { nodes: Node[] }, Node = { id: string, leaves: Leaf[] },
\* Leaf = { id: string, w: number }, both with primary key id
LeafType(b) ==
  Describe(b, S_Leaf, Str(S_id),
           << <<S_id, Primitive("string")>>, <<S_w, Primitive("number")>> >>)

NodeType(b) ==
  LET leaf == LeafType(b)
  IN Describe(leaf, S_Node, Str(S_id),
              << <<S_id, Primitive("string")>>, <<S_leaves, Complex(leaf.td)>> >>)

TreeType ==
  LET node == NodeType(Nothing)
  IN Describe(node, S_Tree, Undefined, << <<S_nodes, Complex(node.td)>> >>)

PrimValues ==
  {Object(<< <<S_n, n>>, <<S_tags, tags>> >>) :
     n \in {Undefined, Null, Num(1)},
     tags \in {Undefined, Str(S_x)} \cup ArraysOver({Str(S_x), Str(S_y)}, MaxLen)}

\* numbers that are no number, and null
NumberValues ==
  {Object(<< <<S_n, n>>, <<S_tags, tags>> >>) :
     n \in {Undefined, NaN},
     tags \in ArraysOver({Null, NaN}, MaxLen)}

\* a and a with v differ in v, a and A in the case of the key, b in the key
Item(id, v) == Object(<< <<S_id, Str(id)>>, <<S_v, v>> >>)

Items == {Item(S_a, Undefined), Item(S_a, Num(1)), Item(S_A, Num(1)), Item(S_b, Num(1))}

\* two arrays whose matched pairs both differ, b before a in from, without
\* and with an element on one side only
SwappedPairs ==
  {<<Arr(<<Item(S_b, Num(1)), Item(S_a, Num(1))>>),
     Arr(<<Item(S_a, Undefined), Item(S_b, Undefined)>>)>>,
   <<Arr(<<Item(S_b, Num(1)), Item(S_y, Num(1)), Item(S_a, Num(1))>>),
     Arr(<<Item(S_a, Undefined), Item(S_x, Num(1)), Item(S_b, Undefined)>>)>>}

Leaf(id, w) == Obj(<< <<S_id, Str(id)>>, <<S_w, Num(w)>> >>)

\* a leaf whose w is null
BlankLeaf(id) == Obj(<< <<S_id, Str(id)>>, <<S_w, Null>> >>)

LeafArrays ==
  {Undefined, Num(1), Arr(<<>>), Arr(<<BlankLeaf(S_b)>>), Arr(<<Leaf(S_a, 1)>>), Arr(<<Leaf(S_a, 2)>>),
   Arr(<<Leaf(S_a, 1), Leaf(S_b, 1)>>),
   Arr(<<Leaf(S_b, 1), Leaf(S_a, 1)>>)}

Node(id, leaves) == Object(<< <<S_id, Str(id)>>, <<S_leaves, leaves>> >>)

Nodes == {Node(S_a, leaves) : leaves \in LeafArrays} \cup {Node(S_b, Arr(<<Leaf(S_a, 1)>>))}

\* what a property that should hold an array holds instead
NonArrays == {Undefined, Null, Num(1)}

\* the pairs of values of one array property: two arrays over S with at
\* most n elements together, or a non-array against at most one element
ArrayPairs(S, n) ==
  UNION {{<<Arr(f), Arr(t)>> : f \in [1..km[1] -> S], t \in [1..km[2] -> S]} :
           km \in {c \in (0..n) \X (0..n) : c[1] + c[2] <= n}}
  \cup {<<x, y>> : x \in NonArrays, y \in NonArrays \cup ArraysOver(S, 1)}
  \cup {<<y, x>> : x \in NonArrays, y \in ArraysOver(S, 1)}

\* a config written by hand and never passed to TypeDescriptors.create: its
\* property bad is a new object, a and items are objects another descriptor
\* has bound
HandType ==
  LET item == ItemType(Nothing)
      other == Describe(item, S_List, Undefined,
                        << <<S_a, Primitive("string")>>, <<S_items, Complex(item.td)>> >>)
      fresh == Len(other.heap) + 1
  IN [heap |-> Append(other.heap, Primitive("string")),
      created |-> other.created,
      td |-> [name |-> S_Hand, primaryKey |-> Undefined,
              properties |-> << other.td.properties[1], <<S_bad, fresh>>,
                                other.td.properties[2] >>]]

\* a complex property without a type descriptor
BareType ==
  LET item == ItemType(Nothing)
  IN Describe(item, S_Bare, Undefined,
              << <<S_a, Primitive("string")>>,
                 <<S_bad, [type |-> "complex", descriptor |-> <<>>, name |-> Undefined]>>,
                 <<S_items, Complex(item.td)>> >>)

\* a complex property whose type descriptor has no primary key
KeylessType ==
  LET item == ItemType(Nothing)
      keyless == Describe(item, S_Prim, Undefined, << <<S_n, Primitive("number")>> >>)
  IN Describe(keyless, S_Keyless, Undefined,
              << <<S_a, Primitive("string")>>,
                 <<S_bad, Complex(keyless.td)>>,
                 <<S_items, Complex(item.td)>> >>)

\* { items: Element[] }, Element = { a: string, bad: <no descriptor>, id: string }
BareListType ==
  LET element == Describe(Nothing, S_Bare, Str(S_id),
                          << <<S_a, Primitive("string")>>,
                             <<S_bad, [type |-> "complex", descriptor |-> <<>>,
                                       name |-> Undefined]>>,
                             <<S_id, Primitive("string")>> >>)
  IN Describe(element, S_List, Undefined, << <<S_items, Complex(element.td)>> >>)

\* { items: Keyed[] }, Keyed = { id: string, v: number } with primaryKey []
EmptyKeyType ==
  LET keyed == Describe(Nothing, S_Item, Arr(<<>>),
                        << <<S_id, Primitive("string")>>, <<S_v, Primitive("number")>> >>)
  IN Describe(keyed, S_List, Undefined, << <<S_items, Complex(keyed.td)>> >>)

\* what items holds under EmptyKeyType
EmptyKeyValues == {Undefined} \cup ArraysOver({Item(S_a, Num(1)), Item(S_b, Num(1))}, 1)

\* elements of ListType whose id is no string, or is not there
KeyItems ==
  {Object(<< <<S_id, id>>, <<S_v, Num(1)>> >>) : id \in {Undefined, Num(0), Num(1), Str(S_1)}}

\* { items: Pair[] }, Pair = { a: string, b: string } with primary key [a, b]
PairType ==
  LET pair == Describe(Nothing, S_Pair, Arr(<<Str(S_a), Str(S_b)>>),
                       << <<S_a, Primitive("string")>>, <<S_b, Primitive("string")>> >>)
  IN Describe(pair, S_List, Undefined, << <<S_items, Complex(pair.td)>> >>)

\* key values that hold the separators of the canonical key
PairItems ==
  {Obj(<< <<S_a, Str(S_1_b_2)>>, <<S_b, Str(S_3)>> >>),
   Obj(<< <<S_a, Str(S_1)>>, <<S_b, Str(S_2_b_3)>> >>),
   Obj(<< <<S_a, Str(S_1)>>, <<S_b, Str(S_3)>> >>)}

BrokenTypes == {HandType, BareType, KeylessType}

BrokenValues ==
  {Object(<< <<S_a, Str(a)>>, <<S_bad, bad>>, <<S_items, items>> >>) :
     a \in {S_x, S_y},
     bad \in {Undefined, Arr(<<>>)},
     items \in {Undefined, Num(1), Arr(<<>>),
                Arr(<<Obj(<< <<S_id, Str(S_a)>> >>)>>),
                Arr(<<Obj(<< <<S_id, Str(S_a)>>, <<S_v, Num(1)>> >>)>>)}}

BareElements ==
  {Object(<< <<S_a, a>>, <<S_id, Str(id)>> >>) : a \in {Undefined, Str(S_x)}, id \in {S_a, S_b}}

(***************************************************************************)
(* The engine run on drawn inputs: diff has been entered with arguments    *)
(* (from, to, descriptor), Run is the call.                                *)
(***************************************************************************)
Built(type) ==
  /\ heap = type.heap
  /\ created = type.created
  /\ descriptor = type.td

InitPrim ==
  /\ Built(PrimType)
  /\ from \in PrimValues
  /\ to \in PrimValues

InitNumbers ==
  /\ Built(PrimType)
  /\ from \in NumberValues
  /\ to \in NumberValues

InitList ==
  /\ Built(ListType)
  /\ \E p \in ArrayPairs(Items, MaxItems) \cup SwappedPairs :
       /\ from = Object(<< <<S_items, p[1]>> >>)
       /\ to = Object(<< <<S_items, p[2]>> >>)

InitTree ==
  /\ Built(TreeType)
  /\ \E p \in ArrayPairs(Nodes, MaxNodes) :
       /\ from = Object(<< <<S_nodes, p[1]>> >>)
       /\ to = Object(<< <<S_nodes, p[2]>> >>)

InitBroken ==
  /\ \E type \in BrokenTypes : Built(type)
  /\ from \in BrokenValues
  /\ to \in BrokenValues

InitBareList ==
  /\ Built(BareListType)
  /\ \E p \in ArrayPairs(BareElements, MaxNodes) :
       /\ from = Object(<< <<S_items, p[1]>> >>)
       /\ to = Object(<< <<S_items, p[2]>> >>)

InitKeys ==
  \/ /\ Built(ListType)
     /\ \E p \in ArrayPairs(KeyItems, MaxNodes) :
          /\ from = Object(<< <<S_items, p[1]>> >>)
          /\ to = Object(<< <<S_items, p[2]>> >>)
  \/ /\ Built(PairType)
     /\ \E p \in ArrayPairs(PairItems, MaxNodes) :
          /\ from = Object(<< <<S_items, p[1]>> >>)
          /\ to = Object(<< <<S_items, p[2]>> >>)

InitEmptyKey ==
  /\ Built(EmptyKeyType)
  /\ \E f \in EmptyKeyValues : from = Object(<< <<S_items, f>> >>)
  /\ \E t \in EmptyKeyValues : to = Object(<< <<S_items, t>> >>)

\* ObjectDiffExample.diff: the registry's collection descriptor and the
\* example's two collections
InitExample ==
  /\ Built(ExampleRegistry)
  /\ from = ExampleFrom
  /\ to = ExampleTo

InitDiff ==
  /\ pc = "called"
  /\ changeResult = Undefined
  /\ errors = <<>>
  /\ \/ InitPrim
     \/ InitNumbers
     \/ InitList
     \/ InitTree
     \/ InitBroken
     \/ InitBareList
     \/ InitEmptyKey
     \/ InitKeys
     \/ InitExample

\* diff(from, to, descriptor) runs to its end: it returns changeResult, or
\* an Error leaves it and the caller gets no result
Run ==
  /\ pc = "called"
  /\ LET outcome == Diff(from, to, descriptor)
     IN /\ pc' = IF Failed(outcome) THEN "thrown" ELSE "returned"
        /\ changeResult' = IF Failed(outcome) THEN Undefined ELSE Obj(outcome.result)
        /\ errors' = outcome.log
  /\ UNCHANGED <<heap, created, from, to, descriptor>>

SpecDiff == InitDiff /\ [][Run]_vars

(***************************************************************************)
(* Preconditions of the contract                                           *)
(***************************************************************************)
\* Every property name is bound to its key, every complex property has a
\* nested descriptor with a primary key, at every level.
RECURSIVE WellFormed(_)
WellFormed(td) ==
  \A i \in 1..Len(td.properties) :
    LET propertyDescriptor == heap[td.properties[i][2]]
    IN /\ propertyDescriptor.name = Str(td.properties[i][1])
       /\ propertyDescriptor.type = "complex" =>
            /\ propertyDescriptor.descriptor # <<>>
            /\ Truthy(propertyDescriptor.descriptor[1].primaryKey)
            /\ ToArray(propertyDescriptor.descriptor[1].primaryKey)[1] # <<>>
            /\ WellFormed(propertyDescriptor.descriptor[1])

\* The value has the shape the descriptor describes: it is an object whose
\* complex properties are nil or arrays of such objects.
RECURSIVE Compatible(_, _)
Compatible(value, td) ==
  /\ IsObject(value)
  /\ \A i \in 1..Len(td.properties) :
       LET propertyDescriptor == heap[td.properties[i][2]]
           propertyValue == Get(value, td.properties[i][1])
       IN propertyDescriptor.type = "complex" =>
            \/ IsNil(propertyValue)
            \/ /\ IsArray(propertyValue)
               /\ \A j \in 1..Len(propertyValue[2]) :
                    Compatible(propertyValue[2][j], propertyDescriptor.descriptor[1])

Done == pc \in {"returned", "thrown"}

(***************************************************************************)
(* C1  Identity: diff(x, x, D) of a value x compatible with a well-formed  *)
(* descriptor D returns the empty change result, and nothing is logged.    *)
(***************************************************************************)
Identity ==
  (Done /\ from = to /\ WellFormed(descriptor) /\ Compatible(from, descriptor))
    => /\ pc = "returned"
       /\ changeResult = Obj(<<>>)
       /\ errors = <<>>

\* x holds an array of elements that hold non-empty arrays themselves
IdentityWitness ==
  /\ pc = "returned"
  /\ from = to
  /\ WellFormed(descriptor)
  /\ Compatible(from, descriptor)
  /\ IsArray(Get(from, S_nodes))
  /\ \E i \in 1..Len(Get(from, S_nodes)[2]) :
       LET leaves == Get(Get(from, S_nodes)[2][i], S_leaves)
       IN IsArray(leaves) /\ Len(leaves[2]) > 1

(***************************************************************************)
(* C6  The motivating scenario: the example's diff returns the result the  *)
(* README prints: the removed car and the added car as full snapshots, the *)
(* modified car as its id, the msrp marker and a salePrice marker whose    *)
(* removed side carries no value; the truck as a removed snapshot.         *)
(***************************************************************************)
ExampleChangeResult ==
  Obj(<< <<S_cars,
           Arr(<< ExampleResult[2][1][2][2][1],
                  ExampleResult[2][1][2][2][2],
                  Obj(<< <<S_id, Str(S_modified_car)>>,
                         <<S_msrp, Obj(<< <<Removed, Num(15000)>>, <<Added, Num(16000)>> >>)>>,
                         <<S_salePrice, Obj(<< <<Removed, Undefined>>,
                                               <<Added, Num(14000)>> >>)>> >>) >>)>>,
         ExampleResult[2][2] >>)

IsExample ==
  /\ heap = ExampleRegistry.heap
  /\ descriptor = ExampleRegistry.td
  /\ from = ExampleFrom
  /\ to = ExampleTo

Scenario ==
  (Done /\ IsExample)
    => /\ pc = "returned"
       /\ changeResult = ExampleChangeResult
       /\ Json(changeResult) = ExampleResult
       /\ errors = <<>>

ScenarioWitness == pc = "returned" /\ IsExample

(***************************************************************************)
(* C2  Antisymmetry.  Swap exchanges the '-' and '+' keys of a result,     *)
(* ChangedPaths is the set of property paths a result reports (the markers *)
(* and what they hold are no paths).                                       *)
(***************************************************************************)
RECURSIVE Swap(_)
Swap(v) ==
  IF IsArray(v) THEN Arr([i \in 1..Len(v[2]) |-> Swap(v[2][i])])
  ELSE IF IsObject(v)
    THEN Obj([i \in 1..Len(v[2]) |->
                << IF v[2][i][1] = Removed THEN Added
                   ELSE IF v[2][i][1] = Added THEN Removed
                   ELSE v[2][i][1],
                   Swap(v[2][i][2]) >>])
  ELSE v

RECURSIVE ChangedPaths(_)
ChangedPaths(v) ==
  IF IsArray(v) THEN UNION {ChangedPaths(v[2][i]) : i \in 1..Len(v[2])}
  ELSE IF IsObject(v)
    THEN UNION {IF v[2][i][1] \in {Removed, Added} THEN {}
                ELSE {<<v[2][i][1]>>}
                     \cup {<<v[2][i][1]>> \o p : p \in ChangedPaths(v[2][i][2])} :
                i \in 1..Len(v[2])}
  ELSE {}

\* the entries of a sequence that carry the removed marker, then those that
\* carry the added marker, then the others, each group in its order; the
\* same inside every entry
HasMarker(v, marker) == IsObject(v) /\ HasKey(v[2], marker)

RECURSIVE RemovedFirst(_)
RemovedFirst(v) ==
  IF IsArray(v)
    THEN LET inner == [i \in 1..Len(v[2]) |-> RemovedFirst(v[2][i])]
         IN Arr(SelectSeq(inner, LAMBDA e : HasMarker(e, Removed))
                \o SelectSeq(inner, LAMBDA e : ~HasMarker(e, Removed) /\ HasMarker(e, Added))
                \o SelectSeq(inner, LAMBDA e : ~HasMarker(e, Removed) /\ ~HasMarker(e, Added)))
  ELSE IF IsObject(v)
    THEN Obj([i \in 1..Len(v[2]) |-> <<v[2][i][1], RemovedFirst(v[2][i][2])>>])
  ELSE v

Contract ==
  /\ Done
  /\ WellFormed(descriptor)
  /\ Compatible(from, descriptor)
  /\ Compatible(to, descriptor)

\* C2 as stated: diff(to, from) throws exactly if diff(from, to) does, and
\* otherwise it is diff(from, to) with every '-' and '+' marker exchanged,
\* every entry staying where it is.
AntisymmetryAsStated ==
  Contract =>
    LET back == Diff(to, from, descriptor)
    IN /\ Failed(back) <=> pc = "thrown"
       /\ pc = "returned" =>
            /\ IsEqual(Obj(back.result), Swap(changeResult))
            /\ ChangedPaths(Obj(back.result)) = ChangedPaths(changeResult)

\* C2 (antisymmetry): for well-formed from, to and descriptor, diff(to, from)
\* throws exactly if diff(from, to) does, and otherwise it is diff(from, to)
\* with every '-' and '+' marker exchanged (scalar markers, primitive-array
\* markers and snapshot entries alike), each sequence of entries being in
\* the order the engine always emits (the entries that carry '-', then
\* those that carry '+', then the matched ones); the changed property paths
\* of the two results are the same.
Antisymmetry ==
  Contract =>
    LET back == Diff(to, from, descriptor)
    IN /\ Failed(back) <=> pc = "thrown"
       /\ pc = "returned" =>
            /\ IsEqual(Obj(back.result), RemovedFirst(Swap(changeResult)))
            /\ ChangedPaths(Obj(back.result)) = ChangedPaths(changeResult)

\* a call that returned a sequence holding a removed and an added entry,
\* which change places when the markers are exchanged
AntisymmetryWitness ==
  /\ Contract
  /\ pc = "returned"
  /\ IsArray(Get(changeResult, S_items))
  /\ \E i, j \in 1..Len(Get(changeResult, S_items)[2]) :
       /\ HasMarker(Get(changeResult, S_items)[2][i], Removed)
       /\ HasMarker(Get(changeResult, S_items)[2][j], Added)
  /\ Swap(changeResult) # RemovedFirst(Swap(changeResult))

(***************************************************************************)
(* The properties of the root object                                       *)
(***************************************************************************)
Properties == 1..Len(descriptor.properties)
KeyAt(i) == descriptor.properties[i][1]
DescriptorAt(i) == heap[descriptor.properties[i][2]]
IsComplexAt(i) == DescriptorAt(i).type = "complex"
\* the type descriptor and the primary keys of the elements of property i
ElementType(i) == DescriptorAt(i).descriptor[1]
ElementKeys(i) == ToArray(ElementType(i).primaryKey)[1]
BothArrays(i) == IsArray(Get(from, KeyAt(i))) /\ IsArray(Get(to, KeyAt(i)))
FromItems(i) == Get(from, KeyAt(i))[2]
ToItems(i) == Get(to, KeyAt(i))[2]
\* the entries diff returned for property i (none when it has no entry)
Entries(i) ==
  IF IsArray(Get(changeResult, KeyAt(i))) THEN Get(changeResult, KeyAt(i))[2] ELSE <<>>

Count(xs, e) == Cardinality({i \in 1..Len(xs) : xs[i] = e})
Permuted(xs, ys) ==
  /\ Len(xs) = Len(ys)
  /\ \A i \in 1..Len(xs) : Count(xs, xs[i]) = Count(ys, xs[i])

\* no two elements have the same identity
UniqueKeys(items, primaryKeys) ==
  \A i, j \in 1..Len(items) :
    GetPrimaryKeyValue(items[i], primaryKeys) = GetPrimaryKeyValue(items[j], primaryKeys)
      => i = j

\* C3 (order independence): when the to value of an array-valued property is
\* a permutation of its from value (a primitive array, or a complex array
\* whose elements have unique primary keys), the change result diff returns
\* has no entry for that property.
OrderIndependence ==
  Contract /\ pc = "returned" =>
    \A i \in Properties :
      ( /\ BothArrays(i)
        /\ Permuted(FromItems(i), ToItems(i))
        /\ IsComplexAt(i) => UniqueKeys(FromItems(i), ElementKeys(i)) )
      => ~HasKey(changeResult[2], KeyAt(i))

\* a complex array of several elements was diffed against a re-ordering of it
OrderIndependenceWitness ==
  /\ Contract
  /\ pc = "returned"
  /\ \E i \in Properties :
       /\ IsComplexAt(i)
       /\ BothArrays(i)
       /\ Len(FromItems(i)) > 1
       /\ FromItems(i) # ToItems(i)
       /\ Permuted(FromItems(i), ToItems(i))
       /\ UniqueKeys(FromItems(i), ElementKeys(i))

\* two strings that differ at most in the case of some letters
SameButCase(x, y) ==
  /\ Len(x) = Len(y)
  /\ \A i \in 1..Len(x) :
       \/ x[i] = y[i]
       \/ x[i] \in 65..90 /\ y[i] = x[i] + 32
       \/ y[i] \in 65..90 /\ x[i] = y[i] + 32

IsString(v) == v[1] = "string"
\* the value of the first primary key of an element of property i
KeyOf(item, i) == Get(item, ElementKeys(i)[1])
SameIdentity(v, w) == IsString(v) /\ IsString(w) /\ SameButCase(v[2], w[2])

\* the entry is a snapshot (removed or added) of an element with identity v
IsSnapshotWithKey(entry, i, v) ==
  \E marker \in {Removed, Added} :
    /\ HasMarker(entry, marker)
    /\ SameIdentity(KeyOf(Lookup(entry[2], marker), i), v)

\* the entry of a matched pair: it carries no marker and holds what the
\* diff of the two elements holds
IsChangeOf(entry, fromItem, toItem, td) ==
  /\ ~HasMarker(entry, Removed)
  /\ ~HasMarker(entry, Added)
  /\ \A n \in 1..Len(Diff(fromItem, toItem, td).result) :
       Lookup(entry[2], Diff(fromItem, toItem, td).result[n][1])
         = Diff(fromItem, toItem, td).result[n][2]

\* C4 (case-insensitive key matching): when an element of the from array and
\* an element of the to array of a complex property have primary key
\* values that differ only in letter case, the reconciler has one matched
\* pair for their key, neither element is among the removed or the added
\* ones, the result holds no removed or added snapshot of them, and (keys
\* being unique on each side) it holds the entry of their recursive diff.
CaseInsensitiveMatching ==
  Contract /\ pc = "returned" =>
    \A i \in Properties :
      IsComplexAt(i) /\ BothArrays(i) =>
        \A m \in 1..Len(FromItems(i)), n \in 1..Len(ToItems(i)) :
          ( /\ KeyOf(FromItems(i)[m], i) # KeyOf(ToItems(i)[n], i)
            /\ SameIdentity(KeyOf(FromItems(i)[m], i), KeyOf(ToItems(i)[n], i)) )
          => LET changes == GetChanges(FromItems(i), ToItems(i), ElementKeys(i))
             IN /\ \E k \in 1..Len(changes.inBoth) :
                     /\ SameIdentity(KeyOf(changes.inBoth[k].from[1], i),
                                     KeyOf(FromItems(i)[m], i))
                     /\ SameIdentity(KeyOf(changes.inBoth[k].to[1], i),
                                     KeyOf(FromItems(i)[m], i))
                /\ \A k \in 1..Len(changes.removed) : changes.removed[k] # FromItems(i)[m]
                /\ \A k \in 1..Len(changes.added) : changes.added[k] # ToItems(i)[n]
                /\ \A k \in 1..Len(Entries(i)) :
                     ~IsSnapshotWithKey(Entries(i)[k], i, KeyOf(FromItems(i)[m], i))
                /\ ( /\ UniqueKeys(FromItems(i), ElementKeys(i))
                     /\ UniqueKeys(ToItems(i), ElementKeys(i)) )
                   => \E k \in 1..Len(Entries(i)) :
                        IsChangeOf(Entries(i)[k], FromItems(i)[m], ToItems(i)[n],
                                   ElementType(i))

\* an element with key 'a' met an element with key 'A', among others
CaseInsensitiveMatchingWitness ==
  /\ Contract
  /\ pc = "returned"
  /\ \E i \in Properties :
       /\ IsComplexAt(i)
       /\ BothArrays(i)
       /\ Len(FromItems(i)) > 1
       /\ \E m \in 1..Len(FromItems(i)), n \in 1..Len(ToItems(i)) :
            /\ KeyOf(FromItems(i)[m], i) # KeyOf(ToItems(i)[n], i)
            /\ SameIdentity(KeyOf(FromItems(i)[m], i), KeyOf(ToItems(i)[n], i))
            /\ \E k \in 1..Len(Entries(i)) :
                 IsChangeOf(Entries(i)[k], FromItems(i)[m], ToItems(i)[n], ElementType(i))

\* the entries of property i that carry no marker: those of matched pairs
ChangeEntries(i) ==
  SelectSeq(Entries(i), LAMBDA e : ~HasMarker(e, Removed) /\ ~HasMarker(e, Added))

\* the matched pairs of property i whose recursive diff is not empty
ChangedPairs(i) ==
  SelectSeq(GetChanges(FromItems(i), ToItems(i), ElementKeys(i)).inBoth,
            LAMBDA c : Len(Diff(c.from[1], c.to[1], ElementType(i)).result) > 0)

\* the primary key values of the element, plain, one per primary-key name,
\* followed by the changed sub-properties that are no primary key
KeysThenChanges(change, i) ==
  Obj([n \in 1..Len(ElementKeys(i)) |->
         <<ElementKeys(i)[n], Get(change.from[1], ElementKeys(i)[n])>>]
      \o SelectSeq(Diff(change.from[1], change.to[1], ElementType(i)).result,
                   LAMBDA e : ~Includes(ElementKeys(i), e[1])))

\* C5 as stated: there is one entry per matched pair whose recursive diff is
\* not empty, none for the other pairs, and the entry consists of the
\* element's primary key values, plain, followed by exactly the changed
\* sub-properties.
MatchedEntries ==
  Contract /\ pc = "returned" =>
    \A i \in Properties :
      ( /\ IsComplexAt(i)
        /\ BothArrays(i)
        /\ UniqueKeys(FromItems(i), ElementKeys(i))
        /\ UniqueKeys(ToItems(i), ElementKeys(i)) )
      => /\ Len(ChangeEntries(i)) = Len(ChangedPairs(i))
         /\ \A k \in 1..Len(ChangeEntries(i)) :
              ChangeEntries(i)[k] = KeysThenChanges(ChangedPairs(i)[k], i)

\* a matched pair whose elements differ in a property that is no primary key
MatchedEntriesWitness ==
  /\ Contract
  /\ pc = "returned"
  /\ \E i \in Properties :
       /\ IsComplexAt(i)
       /\ BothArrays(i)
       /\ UniqueKeys(FromItems(i), ElementKeys(i))
       /\ UniqueKeys(ToItems(i), ElementKeys(i))
       /\ \E k \in 1..Len(ChangedPairs(i)) :
            /\ KeyOf(ChangedPairs(i)[k].from[1], i) = KeyOf(ChangedPairs(i)[k].to[1], i)
            /\ ChangeEntries(i)[k] = KeysThenChanges(ChangedPairs(i)[k], i)

\* The snapshot has, under the type descriptor, exactly these keys: every
\* primitive property of the element that is not nil, with its value, and
\* every complex property that holds an array with elements, with one
\* snapshot per element in the order of the array.
RECURSIVE IsSnapshotOf(_, _, _)
IsSnapshotOf(snapshot, element, td) ==
  /\ IsObject(snapshot)
  /\ \A n \in 1..Len(snapshot[2]) :
       \E m \in 1..Len(td.properties) : td.properties[m][1] = snapshot[2][n][1]
  /\ \A n \in 1..Len(td.properties) :
       IF heap[td.properties[n][2]].type = "complex"
         THEN IF IsArray(Get(element, td.properties[n][1]))
                 /\ Len(Get(element, td.properties[n][1])[2]) > 0
                THEN /\ IsArray(Lookup(snapshot[2], td.properties[n][1]))
                     /\ Len(Lookup(snapshot[2], td.properties[n][1])[2])
                          = Len(Get(element, td.properties[n][1])[2])
                     /\ \A m \in 1..Len(Get(element, td.properties[n][1])[2]) :
                          IsSnapshotOf(Lookup(snapshot[2], td.properties[n][1])[2][m],
                                       Get(element, td.properties[n][1])[2][m],
                                       heap[td.properties[n][2]].descriptor[1])
                ELSE ~HasKey(snapshot[2], td.properties[n][1])
         ELSE IF IsNil(Get(element, td.properties[n][1]))
                THEN ~HasKey(snapshot[2], td.properties[n][1])
                ELSE /\ HasKey(snapshot[2], td.properties[n][1])
                     /\ Lookup(snapshot[2], td.properties[n][1])
                          = Get(element, td.properties[n][1])

\* the entries of property i that carry a marker
SnapshotEntries(i) ==
  SelectSeq(Entries(i), LAMBDA e : HasMarker(e, Removed) \/ HasMarker(e, Added))

\* the entry holds the marker and nothing else, and under it the snapshot
IsMarked(entry, marker, element, td) ==
  /\ Len(entry[2]) = 1
  /\ HasMarker(entry, marker)
  /\ IsSnapshotOf(Lookup(entry[2], marker), element, td)

\* C7 (snapshot projection): the entries diff returns for the elements
\* present on one side only are, in order, one removed snapshot per removed
\* element and one added snapshot per added element, and each snapshot has
\* exactly the keys of the element's non-nil primitive properties (value
\* verbatim) and of its complex properties with a non-empty array (one
\* nested snapshot per element, in array order).
SnapshotProjection ==
  Contract /\ pc = "returned" =>
    \A i \in Properties :
      IsComplexAt(i) /\ BothArrays(i) =>
        LET changes == GetChanges(FromItems(i), ToItems(i), ElementKeys(i))
        IN /\ Len(SnapshotEntries(i)) = Len(changes.removed) + Len(changes.added)
           /\ \A k \in 1..Len(changes.removed) :
                IsMarked(SnapshotEntries(i)[k], Removed, changes.removed[k], ElementType(i))
           /\ \A k \in 1..Len(changes.added) :
                IsMarked(SnapshotEntries(i)[Len(changes.removed) + k], Added,
                         changes.added[k], ElementType(i))

\* a removed node whose snapshot holds the snapshot of its leaf, the leaf's
\* null w left out
SnapshotProjectionWitness ==
  /\ Contract
  /\ pc = "returned"
  /\ \E k \in 1..Len(Entries(1)) :
       /\ HasMarker(Entries(1)[k], Removed)
       /\ Lookup(Lookup(Entries(1)[k][2], Removed)[2], S_leaves)
            = Arr(<< Obj(<< <<S_id, Str(S_b)>> >>) >>)

(***************************************************************************)
(* Errors                                                                  *)
(***************************************************************************)
\* property i has a configuration error: its name is not bound, or it is
\* complex and has no type descriptor or its type descriptor no primary key
HasConfigurationError(i) ==
  \/ ~Truthy(DescriptorAt(i).name)
  \/ /\ IsComplexAt(i)
     /\ \/ DescriptorAt(i).descriptor = <<>>
        \/ PrimaryKeysOf(DescriptorAt(i)) = <<>>

\* the descriptor without its property i
Without(td, i) ==
  [td EXCEPT !.properties = SelectSeq(@, LAMBDA p : p[1] # td.properties[i][1])]

\* C8 as stated: when one property of the descriptor has a configuration
\* error, diff logs an error and otherwise does what it does under the
\* descriptor without that property: it throws only if a sibling makes it
\* throw, and it returns what the siblings contribute, those that sort
\* after the offending property included.
ErrorScoped ==
  Done =>
    \A i \in Properties :
      ( /\ HasConfigurationError(i)
        /\ \A j \in Properties \ {i} : ~HasConfigurationError(j) )
      => /\ errors # <<>>
         /\ pc = "thrown" <=> Failed(Diff(from, to, Without(descriptor, i)))
         /\ pc = "returned" =>
              changeResult = Obj(Diff(from, to, Without(descriptor, i)).result)

\* a call under a descriptor with one configuration error that logged the
\* error and returned what the sibling sorting before it contributes
ErrorScopedWitness ==
  /\ pc = "returned"
  /\ errors # <<>>
  /\ \E i \in Properties : HasConfigurationError(i)
  /\ HasKey(changeResult[2], S_a)

\* the from and to values of property i are neither both arrays nor both nil
ShapeError(i) ==
  ~ \/ BothArrays(i)
    \/ IsNil(Get(from, KeyAt(i))) /\ IsNil(Get(to, KeyAt(i)))

\* C9 as stated: whenever a complex property (of a usable configuration)
\* holds values that are neither both arrays nor both nil, the call throws
\* and returns no change result.
ShapeErrorsSurfaced ==
  ( /\ Done
    /\ \E i \in Properties :
         IsComplexAt(i) /\ ~HasConfigurationError(i) /\ ShapeError(i) )
  => pc = "thrown" /\ changeResult = Undefined

\* a call that met an array on one side and nothing on the other and threw
ShapeErrorsSurfacedWitness ==
  /\ pc = "thrown"
  /\ changeResult = Undefined
  /\ \E i \in Properties :
       /\ IsComplexAt(i)
       /\ ~HasConfigurationError(i)
       /\ IsArray(Get(from, KeyAt(i)))
       /\ IsNil(Get(to, KeyAt(i)))

(***************************************************************************)
(* A program that makes property descriptors, passes configs to            *)
(* TypeDescriptors.create and calls diff, in any order.                    *)
(***************************************************************************)
MaxObjects == 2
MaxCreated == 2

\* the names the program gives its type descriptors, in turn
TypeNames == <<S_Item, S_List, S_Tree>>

NoDescriptor == [name |-> <<>>, primaryKey |-> Undefined, properties |-> <<>>]

\* the property mappings a config can hold: one or two keys, each with any
\* PropertyDescriptor object made so far, the same one twice included; of
\* two objects the one made first is written first, under a or under b
Mappings ==
  {<< <<S_a, r>> >> : r \in 1..Len(heap)}
  \cup {<< <<S_a, r[1]>>, <<S_b, r[2]>> >> : r \in {q \in (1..Len(heap)) \X (1..Len(heap)) : q[1] <= q[2]}}
  \cup {<< <<S_b, r[1]>>, <<S_a, r[2]>> >> : r \in {q \in (1..Len(heap)) \X (1..Len(heap)) : q[1] < q[2]}}

\* the values diff is called with
CallValues ==
  {Object(<< <<S_a, Str(S_x)>> >>),
   Object(<< <<S_a, Str(S_y)>>, <<S_b, Str(S_x)>> >>)}

Init ==
  /\ heap = <<>>
  /\ created = <<>>
  /\ from = Undefined
  /\ to = Undefined
  /\ descriptor = NoDescriptor
  /\ pc = "idle"
  /\ changeResult = Undefined
  /\ errors = <<>>

\* PropertyDescriptors.string() / number() / complex(descriptor)
NewPropertyDescriptor ==
  /\ pc # "called"
  /\ Len(heap) < MaxObjects
  /\ \/ heap' = Append(heap, Primitive("string"))
     \/ \E n \in 1..Len(created) : heap' = Append(heap, Complex(created[n]))
  /\ UNCHANGED <<created, from, to, descriptor, pc, changeResult, errors>>

\* TypeDescriptors.create(config); descriptor is what it returned
CreateType ==
  /\ pc # "called"
  /\ Len(created) < MaxCreated
  /\ \E properties \in Mappings :
       LET config == [name |-> TypeNames[Len(created) + 1],
                      primaryKey |-> Str(S_a),
                      properties |-> properties]
       IN /\ heap' = Create(heap, config)
          /\ created' = Append(created, config)
          /\ descriptor' = config
  /\ pc' = "created"
  /\ UNCHANGED <<from, to, changeResult, errors>>

\* diff(from, to, descriptor) is entered with a descriptor created before;
\* the caller still holds what the call before it returned
Call ==
  /\ pc # "called"
  /\ \E n \in 1..Len(created) : descriptor' = created[n]
  /\ from' \in CallValues
  /\ to' \in CallValues
  /\ pc' = "called"
  /\ UNCHANGED <<heap, created, changeResult, errors>>

Next == NewPropertyDescriptor \/ CreateType \/ Call \/ Run

Spec == Init /\ [][Next]_vars

\* C10 as stated: when TypeDescriptors.create(config) has returned, the
\* property descriptor stored under every key of config.properties has that
\* key as its name.
NameBinding ==
  pc = "created" =>
    \A i \in 1..Len(descriptor.properties) :
      heap[descriptor.properties[i][2]].name = Str(descriptor.properties[i][1])

\* create has returned a config with two keys and two property descriptors
NameBindingWitness ==
  /\ pc = "created"
  /\ Len(descriptor.properties) = 2
  /\ descriptor.properties[1][2] # descriptor.properties[2][2]
  /\ \A i \in 1..2 :
       heap[descriptor.properties[i][2]].name = Str(descriptor.properties[i][1])

\* C11 as stated: no step changes a descriptor TypeDescriptors.create has
\* returned: its name, its primaryKey, its property set and the name bound
\* to each of its properties stay as they are, whatever creates and diff
\* calls follow.
DescriptorsImmutable ==
  [][\A n \in 1..Len(created) :
       /\ created'[n] = created[n]
       /\ \A i \in 1..Len(created[n].properties) :
            heap'[created[n].properties[i][2]].name
              = heap[created[n].properties[i][2]].name]_vars

\* two descriptors have been created and a diff call under the first has
\* returned, the names of the first still bound to its keys
DescriptorsImmutableWitness ==
  /\ pc = "returned"
  /\ Len(created) = 2
  /\ descriptor = created[1]
  /\ \A i \in 1..Len(descriptor.properties) :
       heap[descriptor.properties[i][2]].name = Str(descriptor.properties[i][1])

\* property i is complex and the primaryKey of its type descriptor is
\* missing or an empty list of names
LacksPrimaryKey(i) ==
  /\ IsComplexAt(i)
  /\ DescriptorAt(i).descriptor # <<>>
  /\ \/ ~Truthy(ElementType(i).primaryKey)
     \/ ElementType(i).primaryKey = Arr(<<>>)

Logged(kind, path) == \E n \in 1..Len(errors) : errors[n] = <<kind, path>>

\* C12 as stated: when the nested descriptor of a complex property has no
\* primaryKey or an empty list of names, diff logs the configuration error
\* of that property and returns no entry for it: nothing is reconciled.
PrimaryKeyRequired ==
  Done =>
    \A i \in Properties :
      Truthy(DescriptorAt(i).name) /\ LacksPrimaryKey(i) =>
        /\ Logged("primaryKey", PropertyPath(descriptor, KeyAt(i)))
        /\ pc = "returned"
        /\ ~HasKey(changeResult[2], KeyAt(i))

\* a call under a descriptor whose nested descriptor has no primaryKey: the
\* error was logged and the property has no entry
PrimaryKeyRequiredWitness ==
  /\ pc = "returned"
  /\ \E i \in Properties :
       /\ LacksPrimaryKey(i)
       /\ IsArray(Get(from, KeyAt(i)))
       /\ Logged("primaryKey", PropertyPath(descriptor, KeyAt(i)))
       /\ ~HasKey(changeResult[2], KeyAt(i))

(***************************************************************************)
(* Primitive properties                                                    *)
(***************************************************************************)
\* x occurs in xs, by value
Occurs(xs, x) == \E n \in 1..Len(xs) : IsEqual(xs[n], x)

\* the elements of xs that do not occur in ys
OnlyIn(xs, ys) == SelectSeq(xs, LAMBDA x : ~Occurs(ys, x))

Ascending(xs) ==
  \A m, n \in 1..Len(xs) : m < n => IsEqual(xs[m], xs[n]) \/ ~Greater(xs[m], xs[n])

\* the entry holds the marker and nothing else, and under it the elements
\* of items, sorted
HoldsSorted(entry, marker, items) ==
  /\ IsObject(entry)
  /\ Len(entry[2]) = 1
  /\ HasMarker(entry, marker)
  /\ IsArray(Lookup(entry[2], marker))
  /\ Permuted(Lookup(entry[2], marker)[2], items)
  /\ Ascending(Lookup(entry[2], marker)[2])

\* C13 as stated: for a primitive property whose two values are arrays, the
\* result has an entry iff some element occurs on one side and not on the
\* other, and the entry holds a removed marker with the sorted elements of
\* from that do not occur in to (if there are any), then an added marker
\* with the sorted elements of to that do not occur in from (if there are
\* any).
UnorderedSets ==
  WellFormed(descriptor) /\ pc = "returned" =>
    \A i \in Properties :
      ~IsComplexAt(i) /\ BothArrays(i) =>
        LET removedItems == OnlyIn(FromItems(i), ToItems(i))
            addedItems == OnlyIn(ToItems(i), FromItems(i))
            markers == Entries(i)
        IN IF removedItems = <<>> /\ addedItems = <<>>
             THEN ~HasKey(changeResult[2], KeyAt(i))
             ELSE /\ IsArray(Get(changeResult, KeyAt(i)))
                  /\ Len(markers) = (IF removedItems = <<>> THEN 0 ELSE 1)
                                      + (IF addedItems = <<>> THEN 0 ELSE 1)
                  /\ removedItems # <<>> => HoldsSorted(markers[1], Removed, removedItems)
                  /\ addedItems # <<>> =>
                       HoldsSorted(markers[Len(markers)], Added, addedItems)

\* two arrays of strings that share an element and each have one of their
\* own, with repeats: the entry holds both markers
UnorderedSetsWitness ==
  /\ WellFormed(descriptor)
  /\ pc = "returned"
  /\ \E i \in Properties :
       /\ ~IsComplexAt(i)
       /\ BothArrays(i)
       /\ Len(Entries(i)) = 2
       /\ HoldsSorted(Entries(i)[1], Removed, OnlyIn(FromItems(i), ToItems(i)))
       /\ HoldsSorted(Entries(i)[2], Added, OnlyIn(ToItems(i), FromItems(i)))

\* the two values are the same primitive value, or arrays of the same
\* primitive values in the same order
SameValue(a, b) == a[1] = b[1] /\ a = b

\* C14 (scalar rule): for a primitive property whose two values are not
\* both arrays, the result holds the property iff the values are not deeply
\* equal, and its entry is then { '-': from[name], '+': to[name] }; absent
\* (undefined), null and every defined value are different values.
ScalarRule ==
  WellFormed(descriptor) /\ pc = "returned" =>
    \A i \in Properties :
      ~IsComplexAt(i) /\ ~BothArrays(i) =>
        IF SameValue(Get(from, KeyAt(i)), Get(to, KeyAt(i)))
          THEN ~HasKey(changeResult[2], KeyAt(i))
          ELSE /\ HasKey(changeResult[2], KeyAt(i))
               /\ Lookup(changeResult[2], KeyAt(i))
                    = Obj(<< <<Removed, Get(from, KeyAt(i))>>,
                             <<Added, Get(to, KeyAt(i))>> >>)

\* a property absent in from and null in to, reported with both sides
ScalarRuleWitness ==
  /\ WellFormed(descriptor)
  /\ pc = "returned"
  /\ \E i \in Properties :
       /\ ~IsComplexAt(i)
       /\ Get(from, KeyAt(i)) = Undefined
       /\ Get(to, KeyAt(i)) = Null
       /\ Lookup(changeResult[2], KeyAt(i)) = Obj(<< <<Removed, Undefined>>, <<Added, Null>> >>)

(***************************************************************************)
(* Identity of array elements                                              *)
(***************************************************************************)
\* String(value)
Coerced(v) ==
  IF v[1] = "undefined" THEN S_undefined
  ELSE IF v[1] = "null" THEN S_null
  ELSE ValueToString(v)

\* for every primary-key name the two values are equal after coercion to
\* string and case folding
SameKeyTuple(x, y, primaryKeys) ==
  \A k \in 1..Len(primaryKeys) :
    SameButCase(Coerced(Get(x, primaryKeys[k])), Coerced(Get(y, primaryKeys[k])))

\* the reconciler has a matched pair under the canonical key of both
PairedUp(x, y, fromArray, toArray, primaryKeys) ==
  \E n \in 1..Len(GetChanges(fromArray, toArray, primaryKeys).inBoth) :
    /\ GetChanges(fromArray, toArray, primaryKeys).inBoth[n].primaryKey
         = GetPrimaryKeyValue(x, primaryKeys)
    /\ GetChanges(fromArray, toArray, primaryKeys).inBoth[n].primaryKey
         = GetPrimaryKeyValue(y, primaryKeys)

\* C16 as stated: an element of the from array and an element of the to
\* array of a reconciled complex property are matched iff for every
\* primary-key name their values are equal after coercion to string and
\* case folding.
KeyTupleIdentity ==
  WellFormed(descriptor) /\ Done =>
    \A i \in Properties :
      IsComplexAt(i) /\ BothArrays(i) =>
        \A m \in 1..Len(FromItems(i)), n \in 1..Len(ToItems(i)) :
          PairedUp(FromItems(i)[m], ToItems(i)[n], FromItems(i), ToItems(i), ElementKeys(i))
            <=> SameKeyTuple(FromItems(i)[m], ToItems(i)[n], ElementKeys(i))

\* an element with id 1 and an element with id '1' were matched, and the
\* result holds neither as removed or added
KeyTupleIdentityWitness ==
  /\ WellFormed(descriptor)
  /\ pc = "returned"
  /\ \E i \in Properties :
       /\ IsComplexAt(i)
       /\ BothArrays(i)
       /\ FromItems(i) = <<Obj(<< <<S_id, Num(1)>>, <<S_v, Num(1)>> >>)>>
       /\ ToItems(i) = <<Obj(<< <<S_id, Str(S_1)>>, <<S_v, Num(1)>> >>)>>
       /\ PairedUp(FromItems(i)[1], ToItems(i)[1], FromItems(i), ToItems(i), ElementKeys(i))
       /\ \A n \in 1..Len(Entries(i)) : ~HasMarker(Entries(i)[n], Removed) /\ ~HasMarker(Entries(i)[n], Added)

(***************************************************************************)
(* The change sequence of a complex property                               *)
(***************************************************************************)
\* no element of others has the canonical key of x
NoCounterpart(x, others, primaryKeys) ==
  \A n \in 1..Len(others) :
    GetPrimaryKeyValue(others[n], primaryKeys) # GetPrimaryKeyValue(x, primaryKeys)

\* the element of others with the canonical key of x
Counterpart(x, others, primaryKeys) ==
  others[CHOOSE n \in 1..Len(others) :
           GetPrimaryKeyValue(others[n], primaryKeys) = GetPrimaryKeyValue(x, primaryKeys)]

\* the from elements of property i that have a counterpart in to and a
\* recursive diff with it that is not empty, by their place in from
Changed(i) ==
  {m \in 1..Len(FromItems(i)) :
     /\ ~NoCounterpart(FromItems(i)[m], ToItems(i), ElementKeys(i))
     /\ Len(Diff(FromItems(i)[m],
                 Counterpart(FromItems(i)[m], ToItems(i), ElementKeys(i)),
                 ElementType(i)).result) > 0}

\* the member of Changed(i) with n - 1 members of smaller canonical key
Ranked(i, n) ==
  CHOOSE m \in Changed(i) :
    Cardinality({k \in Changed(i) :
                   StringLess(GetPrimaryKeyValue(FromItems(i)[k], ElementKeys(i)),
                              GetPrimaryKeyValue(FromItems(i)[m], ElementKeys(i)), 1)}) = n - 1

\* the entry is the change record of the pair: it holds what the diff of the
\* two elements holds and, under each primary-key name, the from element's
\* value or the marker of its change
IsRecordOf(entry, fromItem, toItem, i) ==
  /\ IsChangeOf(entry, fromItem, toItem, ElementType(i))
  /\ \A k \in 1..Len(ElementKeys(i)) :
       IF HasMarker(Get(entry, ElementKeys(i)[k]), Removed)
         THEN Get(entry, ElementKeys(i)[k])
                = Obj(<< <<Removed, Get(fromItem, ElementKeys(i)[k])>>,
                         <<Added, Get(toItem, ElementKeys(i)[k])>> >>)
         ELSE SameValue(Get(entry, ElementKeys(i)[k]), Get(fromItem, ElementKeys(i)[k]))

\* C17 (shape and order of a complex property's change sequence): given
\* unique primary keys within each array, the entries of the property are
\* one removed snapshot per from element without counterpart in to, in from
\* order, then one added snapshot per to element without counterpart in
\* from, in to order, then one change record per matched pair with a
\* non-empty recursive diff, in ascending order of the canonical key, and
\* nothing else; the property is absent from the result iff there is no
\* such entry.
ChangeSequence ==
  WellFormed(descriptor) /\ pc = "returned" =>
    \A i \in Properties :
      ( /\ IsComplexAt(i)
        /\ BothArrays(i)
        /\ UniqueKeys(FromItems(i), ElementKeys(i))
        /\ UniqueKeys(ToItems(i), ElementKeys(i)) )
      => LET removed == SelectSeq(FromItems(i),
                                  LAMBDA x : NoCounterpart(x, ToItems(i), ElementKeys(i)))
             added == SelectSeq(ToItems(i),
                                LAMBDA y : NoCounterpart(y, FromItems(i), ElementKeys(i)))
             changed == Cardinality(Changed(i))
         IN /\ HasKey(changeResult[2], KeyAt(i)) <=> Len(removed) + Len(added) + changed > 0
            /\ HasKey(changeResult[2], KeyAt(i)) => IsArray(Get(changeResult, KeyAt(i)))
            /\ Len(Entries(i)) = Len(removed) + Len(added) + changed
            /\ \A n \in 1..Len(removed) :
                 IsMarked(Entries(i)[n], Removed, removed[n], ElementType(i))
            /\ \A n \in 1..Len(added) :
                 IsMarked(Entries(i)[Len(removed) + n], Added, added[n], ElementType(i))
            /\ \A n \in 1..changed :
                 IsRecordOf(Entries(i)[Len(removed) + Len(added) + n],
                            FromItems(i)[Ranked(i, n)],
                            Counterpart(FromItems(i)[Ranked(i, n)], ToItems(i), ElementKeys(i)),
                            i)

\* from [b, y, a] to [a', x, b']: the removed y, the added x, then the change
\* records of a and of b
ChangeSequenceWitness ==
  /\ WellFormed(descriptor)
  /\ pc = "returned"
  /\ \E i \in Properties :
       /\ IsComplexAt(i)
       /\ BothArrays(i)
       /\ Len(FromItems(i)) = 3
       /\ UniqueKeys(FromItems(i), ElementKeys(i))
       /\ UniqueKeys(ToItems(i), ElementKeys(i))
       /\ Changed(i) = {1, 3}
       /\ Ranked(i, 1) = 3
       /\ Len(Entries(i)) = 4
       /\ HasMarker(Entries(i)[1], Removed)
       /\ HasMarker(Entries(i)[2], Added)
       /\ Get(Entries(i)[3], S_id) = Str(S_a)
       /\ Get(Entries(i)[4], S_id) = Str(S_b)

(***************************************************************************)
(* Duplicate primary keys                                                  *)
(***************************************************************************)
AllObjects(items) == \A n \in 1..Len(items) : IsObject(items[n])

\* the places of items that hold the canonical key
Places(items, keyValue, primaryKeys) ==
  {n \in 1..Len(items) : GetPrimaryKeyValue(items[n], primaryKeys) = keyValue}

\* the first element of items that holds the canonical key
FirstOf(items, keyValue, primaryKeys) ==
  items[CHOOSE n \in Places(items, keyValue, primaryKeys) :
          \A m \in Places(items, keyValue, primaryKeys) : n <= m]

\* items without the elements whose canonical key an earlier element has
\* and an element of others has too
WithoutRepeats(items, others, primaryKeys) ==
  LET repeats(n) ==
        /\ ~NoCounterpart(items[n], others, primaryKeys)
        /\ \E m \in 1..(n - 1) :
             GetPrimaryKeyValue(items[m], primaryKeys) = GetPrimaryKeyValue(items[n], primaryKeys)
      kept == {n \in 1..Len(items) : ~repeats(n)}
      place(k) == CHOOSE n \in kept : Cardinality({m \in kept : m < n}) = k - 1
  IN [k \in 1..Cardinality(kept) |-> items[place(k)]]

\* value with its property i replaced by items
WithItems(value, i, items) == Obj(Put(value[2], KeyAt(i), Arr(items)))

\* the call ended as the call with these arguments ends
EndsAs(fromValue, toValue) ==
  /\ pc = "thrown" <=> Failed(Diff(fromValue, toValue, descriptor))
  /\ pc = "returned" => changeResult = Obj(Diff(fromValue, toValue, descriptor).result)
  /\ errors = Diff(fromValue, toValue, descriptor).log

\* C18 (duplicate primary keys): when a canonical key occurs more than once
\* in one array of a complex property and also in the other array, the
\* reconciler has exactly one matched pair for it, made of the first from
\* element and the first to element with that key; the reconciler throws
\* no Error, and the call ends, with the same result and the same log, as
\* it ends without the later elements of such keys.
DuplicateKeys ==
  WellFormed(descriptor) /\ Done =>
    \A i \in Properties :
      IsComplexAt(i) /\ BothArrays(i) /\ AllObjects(FromItems(i)) /\ AllObjects(ToItems(i)) =>
        \A m \in 1..Len(FromItems(i)) :
          LET keyValue == GetPrimaryKeyValue(FromItems(i)[m], ElementKeys(i))
              inFrom == Places(FromItems(i), keyValue, ElementKeys(i))
              inTo == Places(ToItems(i), keyValue, ElementKeys(i))
              changes == GetChanges(FromItems(i), ToItems(i), ElementKeys(i))
              pairs == {n \in 1..Len(changes.inBoth) : changes.inBoth[n].primaryKey = keyValue}
          IN inTo # {} /\ Cardinality(inFrom) + Cardinality(inTo) > 2 =>
               /\ Cardinality(pairs) = 1
               /\ \A n \in pairs :
                    /\ changes.inBoth[n].from = <<FirstOf(FromItems(i), keyValue, ElementKeys(i))>>
                    /\ changes.inBoth[n].to = <<FirstOf(ToItems(i), keyValue, ElementKeys(i))>>
               /\ ~changes.thrown
               /\ EndsAs(WithItems(from, i, WithoutRepeats(FromItems(i), ToItems(i), ElementKeys(i))),
                         WithItems(to, i, WithoutRepeats(ToItems(i), FromItems(i), ElementKeys(i))))

\* from holds two different elements with the key of the one element of to,
\* and the result has the one change record of the first of them
DuplicateKeysWitness ==
  /\ WellFormed(descriptor)
  /\ pc = "returned"
  /\ \E i \in Properties :
       /\ IsComplexAt(i)
       /\ BothArrays(i)
       /\ FromItems(i) = <<Item(S_a, Undefined), Item(S_a, Num(1))>>
       /\ ToItems(i) = <<Item(S_a, Num(1))>>
       /\ Len(GetChanges(FromItems(i), ToItems(i), ElementKeys(i)).inBoth) = 1
       /\ Len(Entries(i)) = 1
       /\ IsRecordOf(Entries(i)[1], Item(S_a, Undefined), Item(S_a, Num(1)), i)

(***************************************************************************)
(* The reconciler's own Error                                              *)
(***************************************************************************)
\* C19 (the invariant error is unreachable): for two arrays of objects and
\* any primary-key list, every key of the intersection is found by the
\* first-match lookup in the from array and in the to array, in an element
\* with that key, so _getChanges does not throw its Error, and no call of
\* diff ends with it.
NeverUhOh ==
  /\ \A i \in Properties :
       ( /\ IsComplexAt(i)
         /\ DescriptorAt(i).descriptor # <<>>
         /\ Truthy(ElementType(i).primaryKey)
         /\ BothArrays(i)
         /\ AllObjects(FromItems(i))
         /\ AllObjects(ToItems(i)) )
       => LET changes == GetChanges(FromItems(i), ToItems(i), ElementKeys(i))
          IN /\ ~changes.thrown
             /\ \A n \in 1..Len(changes.inBoth) :
                  /\ changes.inBoth[n].from # <<>>
                  /\ changes.inBoth[n].to # <<>>
                  /\ GetPrimaryKeyValue(changes.inBoth[n].from[1], ElementKeys(i))
                       = changes.inBoth[n].primaryKey
                  /\ GetPrimaryKeyValue(changes.inBoth[n].to[1], ElementKeys(i))
                       = changes.inBoth[n].primaryKey
  /\ pc = "thrown" => Diff(from, to, descriptor).thrown[1][1] # "uh-oh"

\* a call has returned that looked up the one key of the intersection, held
\* by the element of to and by more than one of the three elements of from
NeverUhOhWitness ==
  /\ pc = "returned"
  /\ \E i \in Properties :
       /\ IsComplexAt(i)
       /\ DescriptorAt(i).descriptor # <<>>
       /\ Truthy(ElementType(i).primaryKey)
       /\ BothArrays(i)
       /\ Len(FromItems(i)) = 3
       /\ ~UniqueKeys(FromItems(i), ElementKeys(i))
       /\ Len(GetChanges(FromItems(i), ToItems(i), ElementKeys(i)).inBoth) = 1
       /\ Len(ToItems(i)) = 1

(***************************************************************************)
(* Repeated calls                                                          *)
(***************************************************************************)
\* the names of the property descriptors of td are their keys
NamesBound(td) ==
  \A i \in 1..Len(td.properties) : heap[td.properties[i][2]].name = Str(td.properties[i][1])

\* the keys of an object are in ascending order, each once
KeysAscending(es) ==
  \A m, n \in 1..Len(es) : m < n => StringLess(es[m][1], es[n][1], 1)

====
